---- MODULE Spec2Model ----
(***************************************************************************)
(* A model of the skill tooling of tniuli/dotfiles-skills:                *)
(*   update_skills.py          - the Mirror Synchronizer  (SpecSync)      *)
(*   generate_readme_skills.py - Metadata Extractor and Catalog Builder   *)
(*                               (SpecExtract, SpecCatalog)               *)
(*   list_skills.py            - the listing variant of the extractor     *)
(*                               (SpecExtract)                            *)
(*                                                                         *)
(* Text is modelled as sequences of lines, a line being a sequence of     *)
(* tokens (short literal strings).  The Chinese literals of the source    *)
(* are written in pinyin, the module being ASCII:                         *)
(*   "Skills GaiLan" = the README.md start heading text,                  *)
(*   "MuLuJieGou" = the README.md end heading text,                       *)
(*   "ChuFaTiaoJian" / "XiaoGuo" = the Chinese Triggers / Effect words.   *)
(***************************************************************************)
EXTENDS Integers, Sequences, FiniteSets, TLC

VARIABLES
  \* ---- Mirror Synchronizer (update_skills.py) ----
  manifest,   \* sources.json on disk: "missing", "malformed" or "ok"
  sources,    \* the parsed manifest: a sequence of [id, url] in dict order
  fs,         \* skills/<id> for every folder: its content
  fs0,        \* fs when the run started (history)
  entryFs,    \* fs when the current entry's processing started (history)
  idx,        \* index of the entry the for loop is at
  pc,         \* position of update_skills.main
  tempDir,    \* the TemporaryDirectory: "none", "empty" or "cloned"
  trace,      \* what the run did and printed, in order (history)
  \* ---- Extractors (parse_skill_md, get_skill_info) ----
  doc,        \* the SKILL.md under extraction: a sequence of lines
  info,       \* result of parse_skill_md, or NoResult
  linfo,      \* result of get_skill_info, or NoResult
  epc,        \* position of the extraction run
  \* ---- Catalog Builder (generate_readme_skills.main) ----
  skillDocs,  \* skills/<id>/SKILL.md for every folder of the registry
  readme,     \* README.md
  readmeEn,   \* README_EN.md
  readme0,    \* the two documents before the first run (history)
  afterRun,   \* the two documents after each finished run (history)
  cpc,        \* position of generate_readme_skills.main
  skillsMap,  \* main's skills_map: a sequence of info records, sorted by id
  out         \* what the catalog runs printed, in order

syncVars == <<manifest, sources, fs, fs0, entryFs, idx, pc, tempDir, trace>>
extractVars == <<doc, info, linfo, epc>>
catalogVars == <<skillDocs, readme, readmeEn, readme0, afterRun, cpc, skillsMap, out>>
vars == <<syncVars, extractVars, catalogVars>>

NoResult == [none |-> TRUE]

(***************************************************************************)
(* Sequence helpers                                                        *)
(***************************************************************************)
Range(s) == {s[i] : i \in 1..Len(s)}

RECURSIVE SeqsUpTo(_, _)
\* all sequences over S of length at most n
SeqsUpTo(S, n) ==
  IF n = 0 THEN {<<>>}
  ELSE LET shorter == SeqsUpTo(S, n - 1)
       IN  shorter \cup {Append(s, x) : s \in {t \in shorter : Len(t) = n - 1}, x \in S}

(***************************************************************************)
(* Mirror Synchronizer: update_skills.main                                 *)
(***************************************************************************)
MaxEntries == 2

SyncIds == {"a", "b", "c"}

\* A folder skills/<id> holds "absent" (nothing), "old" (what it held before
\* the run), "upstream" (the retrieved subpath's content) or "partial" (an
\* incomplete tree).

Entries == [id : SyncIds, url : BOOLEAN]

Manifests ==
  {s \in SeqsUpTo(Entries, MaxEntries) :
     \A i, j \in 1..Len(s) : i # j => s[i].id # s[j].id}

Ev(e) == Append(trace, [i |-> idx, ev |-> e])
Ev2(e1, e2) == Append(Append(trace, [i |-> idx, ev |-> e1]), [i |-> idx, ev |-> e2])

SyncInit ==
  /\ doc = <<>> /\ info = NoResult /\ linfo = NoResult /\ epc = "idle"
  /\ skillDocs = <<>> /\ readme = <<>> /\ readmeEn = <<>> /\ readme0 = <<>>
  /\ afterRun = <<>> /\ cpc = "idle" /\ skillsMap = <<>> /\ out = <<>>
  /\ manifest \in {"missing", "malformed", "ok"}
  /\ sources \in (IF manifest = "ok" THEN Manifests ELSE {<<>>})
  /\ fs \in [SyncIds -> {"absent", "old"}]
  /\ fs0 = fs
  /\ entryFs = fs
  /\ idx = 0
  /\ pc = "start"
  /\ tempDir = "none"
  /\ trace = <<>>

\* lines 15-26: no manifest, or a malformed one, ends the run
LoadManifest ==
  /\ pc = "start"
  /\ IF manifest = "ok"
       THEN /\ pc' = "loop"
            /\ idx' = 1
            /\ trace' = Ev("found")
       ELSE /\ pc' = "done"
            /\ idx' = idx
            /\ trace' = Ev(IF manifest = "missing" THEN "no_manifest" ELSE "parse_error")
  /\ UNCHANGED <<manifest, sources, fs, fs0, entryFs, tempDir, extractVars, catalogVars>>

\* line 28: the for loop is exhausted
LoopEnd ==
  /\ pc = "loop"
  /\ idx > Len(sources)
  /\ pc' = "done"
  /\ UNCHANGED <<manifest, sources, fs, fs0, entryFs, idx, tempDir, trace, extractVars, catalogVars>>

\* lines 29-31: an entry without a url is skipped
SkipEntry ==
  /\ pc = "loop"
  /\ idx <= Len(sources)
  /\ ~sources[idx].url
  /\ idx' = idx + 1
  /\ entryFs' = fs
  /\ trace' = Ev("skip")
  /\ UNCHANGED <<manifest, sources, fs, fs0, pc, tempDir, extractVars, catalogVars>>

\* lines 33-41: announce the entry and create the temporary directory
BeginEntry ==
  /\ pc = "loop"
  /\ idx <= Len(sources)
  /\ sources[idx].url
  /\ entryFs' = fs
  /\ tempDir' = "empty"
  /\ trace' = Ev("updating")
  /\ pc' = "clone1"
  /\ UNCHANGED <<manifest, sources, fs, fs0, idx, extractVars, catalogVars>>

\* A variant of CloneBranch that falls back to the default branch whether or
\* not the declared branch was retrieved.
CloneBranch_AlwaysFallback ==
  /\ pc = "clone1"
  /\ \E ok \in BOOLEAN :
       /\ tempDir' = (IF ok THEN "cloned" ELSE tempDir)
       /\ trace' = Ev(IF ok THEN "clone_branch_ok" ELSE "clone_branch_failed")
       /\ pc' = "clone2"
  /\ UNCHANGED <<manifest, sources, fs, fs0, entryFs, idx, extractVars, catalogVars>>

\* lines 42-45: git clone -b <branch>; CalledProcessError leads to the fallback
CloneBranch ==
  /\ pc = "clone1"
  /\ \E ok \in BOOLEAN :
       IF ok
         THEN /\ tempDir' = "cloned"
              /\ trace' = Ev("clone_branch_ok")
              /\ pc' = "check"
         ELSE /\ tempDir' = tempDir
              /\ trace' = Ev("clone_branch_failed")
              /\ pc' = "clone2"
  /\ UNCHANGED <<manifest, sources, fs, fs0, entryFs, idx, extractVars, catalogVars>>

\* lines 46-52: git clone of the default branch; on failure report and continue
CloneDefault ==
  /\ pc = "clone2"
  /\ \E ok \in BOOLEAN :
       IF ok
         THEN /\ tempDir' = "cloned"
              /\ trace' = Ev("clone_default_ok")
              /\ pc' = "check"
              /\ idx' = idx
         ELSE /\ tempDir' = "none"
              /\ trace' = Ev2("clone_default_failed", "report_clone_failed")
              /\ pc' = "loop"
              /\ idx' = idx + 1
  /\ UNCHANGED <<manifest, sources, fs, fs0, entryFs, extractVars, catalogVars>>

\* A variant of CheckPath that removes the target before it looks for the
\* subpath.
CheckPath_RemoveFirst ==
  /\ pc = "check"
  /\ fs' = [fs EXCEPT ![sources[idx].id] = "absent"]
  /\ \E exists \in BOOLEAN :
       IF exists
         THEN /\ trace' = Ev("path_ok")
              /\ pc' = "remove"
              /\ UNCHANGED <<idx, tempDir>>
         ELSE /\ trace' = Ev2("path_missing", "report_path_not_found")
              /\ tempDir' = "none"
              /\ pc' = "loop"
              /\ idx' = idx + 1
  /\ UNCHANGED <<manifest, sources, fs0, entryFs, extractVars, catalogVars>>

\* lines 54-57: the subpath must exist in the clone; else report and continue
CheckPath ==
  /\ pc = "check"
  /\ \E exists \in BOOLEAN :
       IF exists
         THEN /\ trace' = Ev("path_ok")
              /\ pc' = "remove"
              /\ UNCHANGED <<idx, tempDir>>
         ELSE /\ trace' = Ev2("path_missing", "report_path_not_found")
              /\ tempDir' = "none"
              /\ pc' = "loop"
              /\ idx' = idx + 1
  /\ UNCHANGED <<manifest, sources, fs, fs0, entryFs, extractVars, catalogVars>>

\* lines 59-61: rmtree of an existing target; a failing rmtree raises out of
\* main (nothing catches it) and may have removed a part of the tree
RemoveTarget ==
  /\ pc = "remove"
  /\ LET id == sources[idx].id IN
       IF fs[id] = "absent"
         THEN /\ pc' = "copy"
              /\ UNCHANGED <<fs, tempDir, trace>>
         ELSE \E ok \in BOOLEAN :
                IF ok
                  THEN /\ fs' = [fs EXCEPT ![id] = "absent"]
                       /\ trace' = Ev("rmtree_ok")
                       /\ pc' = "copy"
                       /\ tempDir' = tempDir
                  ELSE /\ \E left \in {fs[id], "partial"} : fs' = [fs EXCEPT ![id] = left]
                       /\ trace' = Ev("rmtree_raised")
                       /\ pc' = "crashed"
                       /\ tempDir' = "none"
  /\ UNCHANGED <<manifest, sources, fs0, entryFs, idx, extractVars, catalogVars>>

\* lines 63-65: copytree into the (now absent) target; a failing copytree
\* raises out of main and leaves no target or an incomplete one
CopyTree ==
  /\ pc = "copy"
  /\ LET id == sources[idx].id IN
       \E ok \in BOOLEAN :
         IF ok
           THEN /\ fs' = [fs EXCEPT ![id] = "upstream"]
                /\ trace' = Ev2("copy_ok", "report_success")
                /\ pc' = "loop"
                /\ idx' = idx + 1
           ELSE /\ \E left \in {"absent", "partial"} : fs' = [fs EXCEPT ![id] = left]
                /\ trace' = Ev("copy_raised")
                /\ pc' = "crashed"
                /\ idx' = idx
  /\ tempDir' = "none"
  /\ UNCHANGED <<manifest, sources, fs0, entryFs, extractVars, catalogVars>>

SyncNext ==
  \/ LoadManifest
  \/ LoopEnd
  \/ SkipEntry
  \/ BeginEntry
  \/ CloneBranch
  \/ CloneDefault
  \/ CheckPath
  \/ RemoveTarget
  \/ CopyTree

(***************************************************************************)
(* Text: a line is a sequence of tokens, a document a sequence of lines    *)
(* (the text between the newlines, so a final empty line is a trailing     *)
(* newline).  A string value is a sequence of tokens too.                  *)
(***************************************************************************)
WsTokens == {" "}                  \* what str.strip() removes
DashSpaceTokens == {"-", "---", " "}   \* tokens made of the characters of '- '
QuoteTokens == {"\"", "'"}         \* tokens made of the characters of '"\''
DashTokens == {"-", "---"}         \* tokens that start with '-'
ColonTokens == {"name:", "description:", "key:"}   \* tokens that hold a ':'
BlockMarkers == {<<"|">>, <<">">>}
Delim == <<"---">>                \* the front-matter delimiter line

RECURSIVE LStrip(_, _)
LStrip(line, S) ==
  IF line # <<>> /\ Head(line) \in S THEN LStrip(Tail(line), S) ELSE line

RECURSIVE RStrip(_, _)
RStrip(line, S) ==
  IF line # <<>> /\ line[Len(line)] \in S
    THEN RStrip(SubSeq(line, 1, Len(line) - 1), S)
    ELSE line

\* str.strip(chars)
StripSet(line, S) == RStrip(LStrip(line, S), S)
\* str.strip()
Strip(line) == StripSet(line, WsTokens)

\* line.startswith(tok)
StartsWith(line, tok) == line # <<>> /\ line[1] = tok
\* ':' in line
HasColon(line) == \E i \in 1..Len(line) : line[i] \in ColonTokens

\* sep.join(parts)
RECURSIVE Join(_, _)
Join(parts, sep) ==
  IF parts = <<>> THEN <<>>
  ELSE IF Len(parts) = 1 THEN parts[1]
  ELSE parts[1] \o <<sep>> \o Join(Tail(parts), sep)

\* the least element of a non-empty set of numbers
Min(S) == CHOOSE x \in S : \A y \in S : x <= y

(***************************************************************************)
(* parse_skill_md (generate_readme_skills.py)                              *)
(***************************************************************************)
SeeDetails == <<"See details.">>

\* r'^---\n(.*?)\n---' with DOTALL: the text starts with '---\n' and the
\* group ends before the first later line that starts with '---'
FmCloseLines(d) == {j \in 3..Len(d) : StartsWith(d[j], "---")}
FrontmatterMatch(d) == Len(d) >= 1 /\ d[1] = <<"---">> /\ FmCloseLines(d) # {}
\* frontmatter_match.group(1).split('\n')
FrontmatterLines(d) == SubSeq(d, 2, Min(FmCloseLines(d)) - 1)

\* A variant of DescriptionValue that does not know the block markers.
DescriptionValue_NoBlock(line) == StripSet(Strip(Tail(line)), QuoteTokens)

\* lines 33-38: the value a description line sets
DescriptionValue(line) ==
  LET val == Strip(Tail(line))
  IN  IF val \in BlockMarkers THEN SeeDetails ELSE StripSet(val, QuoteTokens)

\* lines 32-40: the loop over the front-matter lines
RECURSIVE ScanFrontmatter(_, _)
ScanFrontmatter(lines, acc) ==
  IF lines = <<>> THEN acc
  ELSE LET line == Head(lines)
           a1 == IF StartsWith(line, "description:")
                   THEN [acc EXCEPT !.description = DescriptionValue(line)]
                   ELSE acc
           a2 == IF StartsWith(line, "name:")
                   THEN [a1 EXCEPT !.name = Strip(Tail(line))]
                   ELSE a1
       IN  ScanFrontmatter(Tail(lines), a2)

\* The heading words accepted for a section; IGNORECASE adds the other cases.
TriggerWords == {"Triggers", "triggers", "ChuFaTiaoJian"}
EffectWords == {"Effect", "effect", "XiaoGuo"}

\* '## <word>' occurs somewhere in the line
HasHeading(line, words) ==
  \E p \in 1..(Len(line) - 1) : line[p] = "## " /\ line[p + 1] \in words

\* re.search(r'## (word).*?\n(.*?)(?=\n## |$)', content, DOTALL): the match
\* starts at the first occurrence that has a newline after it
HeadingLines(d, words) == {h \in 1..(Len(d) - 1) : HasHeading(d[h], words)}

\* group(2) runs from the line after the heading to the end of the first line
\* m that is followed by '\n## ' or by the end of the text ('$' also matches
\* before a trailing newline); the line right after the heading is in it
\* whatever it holds
SectionEnd(d, h) ==
  Min({m \in (h + 1)..Len(d) :
         \/ m = Len(d)
         \/ StartsWith(d[m + 1], "## ")
         \/ (m = Len(d) - 1 /\ d[Len(d)] = <<>>)})

SectionText(d, h) == SubSeq(d, h + 1, SectionEnd(d, h))

\* [line.strip('- ').strip() for line in text.split('\n')
\*  if line.strip().startswith('-')]
RECURSIVE ListItems(_)
ListItems(lines) ==
  IF lines = <<>> THEN <<>>
  ELSE LET line == Head(lines)
           rest == ListItems(Tail(lines))
       IN  IF Strip(line) # <<>> /\ Strip(line)[1] \in DashTokens
             THEN <<Strip(StripSet(line, DashSpaceTokens))>> \o rest
             ELSE rest

Section(d, words) ==
  IF HeadingLines(d, words) = {} THEN <<>>
  ELSE ListItems(SectionText(d, Min(HeadingLines(d, words))))

parse_skill_md(folder, d) ==
  LET info0 == [name |-> <<folder>>, description |-> <<>>]
      fm == IF FrontmatterMatch(d)
              THEN ScanFrontmatter(FrontmatterLines(d), info0)
              ELSE info0
  IN  [name |-> fm.name,
       description |-> fm.description,
       triggers |-> Section(d, TriggerWords),
       effect |-> Section(d, EffectWords)]

(***************************************************************************)
(* get_skill_info (list_skills.py)                                         *)
(***************************************************************************)
\* f.readlines(): a trailing newline does not make a line of its own
ReadLines(d) ==
  IF Len(d) >= 1 /\ d[Len(d)] = <<>> THEN SubSeq(d, 1, Len(d) - 1) ELSE d

\* lines 16-19: a first line that strips to '---' is dropped (in_frontmatter
\* is set there and never read again)
AfterDelimiter(lines) ==
  IF lines # <<>> /\ Strip(lines[1]) = <<"---">> THEN Tail(lines) ELSE lines

\* lines 24-42: the loop; st = [name, description, reading, dlines]
RECURSIVE ScanLines(_, _)
ScanLines(lines, st) ==
  IF lines = <<>> THEN st
  ELSE LET line == Head(lines) IN
       IF Strip(line) = <<"---">> THEN st
       ELSE IF st.reading
         THEN IF (line = <<>> \/ line[1] # " ") /\ HasColon(line)
                THEN st
                ELSE ScanLines(Tail(lines),
                               [st EXCEPT !.dlines = Append(@, Strip(line))])
       ELSE IF StartsWith(line, "name:")
         THEN ScanLines(Tail(lines),
                        [st EXCEPT !.name = StripSet(Strip(Tail(line)), QuoteTokens)])
       ELSE IF StartsWith(line, "description:")
         THEN LET val == Strip(Tail(line)) IN
              IF val \in BlockMarkers
                THEN ScanLines(Tail(lines), [st EXCEPT !.reading = TRUE])
                ELSE ScanLines(Tail(lines),
                               [st EXCEPT !.description = StripSet(val, QuoteTokens)])
       ELSE ScanLines(Tail(lines), st)

get_skill_info(folder, d) ==
  LET st == ScanLines(AfterDelimiter(ReadLines(d)),
                      [name |-> <<>>, description |-> <<>>,
                       reading |-> FALSE, dlines |-> <<>>])
  IN  [id |-> folder,
       name |-> IF st.name = <<>> THEN <<folder>> ELSE st.name,
       description |-> IF st.dlines # <<>> THEN Join(st.dlines, " ")
                                            ELSE st.description]

(***************************************************************************)
(* The extraction run: one SKILL.md, parse_skill_md then get_skill_info    *)
(***************************************************************************)
MaxFmLines == 4
MaxBodyLines == 3

FolderName == "zz"

\* lines a front-matter block is built from
FmPool ==
  { <<"name:", " ", "n">>,
    <<"description:", " ", "|">>,
    <<"description:", " ", ">">>,
    <<"description:", " ", "\"", "d", "\"">>,
    <<" ", "c">>,
    <<" ", "key:", " ", "v">>,
    <<"key:", " ", "v">>,
    <<"text">>,
    <<>> }

\* lines a document body is built from
BodyPool ==
  { <<"## ", "Triggers">>,
    <<"## ", "XiaoGuo">>,
    <<"## ", "Usage">>,
    <<"-", " ", "t">>,
    <<"text">>,
    <<"name:", " ", "n">>,
    <<"description:", " ", "d">>,
    <<"---">>,
    <<>> }

\* documents that vary the front-matter, closed or not, over a short body
FmDocs ==
  {<<<<"---">>>> \o f \o c \o b :
     f \in SeqsUpTo(FmPool, MaxFmLines),
     c \in {<<>>, <<<<"---">>>>},
     b \in {<<>>, <<<<"text">>>>}}

\* documents that vary the body, with or without a front-matter block
BodyDocs ==
  {f \o b :
     f \in {<<>>, <<<<"---">>, <<"name:", " ", "n">>, <<"---">>>>},
     b \in SeqsUpTo(BodyPool, MaxBodyLines) \ {<<>>}}

Docs == FmDocs \cup BodyDocs

ExtractInit ==
  /\ manifest = "missing" /\ sources = <<>> /\ fs = [i \in SyncIds |-> "absent"]
  /\ fs0 = fs /\ entryFs = fs /\ idx = 0 /\ pc = "idle" /\ tempDir = "none"
  /\ trace = <<>>
  /\ skillDocs = <<>> /\ readme = <<>> /\ readmeEn = <<>> /\ readme0 = <<>>
  /\ afterRun = <<>> /\ cpc = "idle" /\ skillsMap = <<>> /\ out = <<>>
  /\ doc \in Docs
  /\ info = NoResult
  /\ linfo = NoResult
  /\ epc = "start"

\* generate_readme_skills.main line 122
ParseSkillMd ==
  /\ epc = "start"
  /\ info' = parse_skill_md(FolderName, doc)
  /\ epc' = "parsed"
  /\ UNCHANGED <<doc, linfo, syncVars, catalogVars>>

\* list_skills.main line 75
GetSkillInfo ==
  /\ epc = "parsed"
  /\ linfo' = get_skill_info(FolderName, doc)
  /\ epc' = "listed"
  /\ UNCHANGED <<doc, info, syncVars, catalogVars>>

ExtractNext ==
  \/ ParseSkillMd
  \/ GetSkillInfo

(***************************************************************************)
(* generate_markdown (generate_readme_skills.py)                           *)
(***************************************************************************)
\* CATEGORIES, lines 5-15: an ordered mapping, key 'English / Chinese'
CATEGORIES ==
  <<
    [key |-> <<"Frontend Development", " / ", "QianDuanKaiFa">>,
     skills |->
       << "react-best-practices", "web-design-guidelines", "implement-frontend",
          "design-ui", "audit-ui", "ui-animation", "nextjs", "react",
          "tailwind-v4-shadcn", "tailwind-patterns", "shadcn",
          "tanstack-query", "tanstack-router", "tanstack-table",
          "zustand-state-management", "react-hook-form-zod", "motion",
          "mui", "ui-ux-pro-max", "vercel-react-native-skills",
          "vercel-react-best-practices", "vercel-composition-patterns" >>],
    [key |-> <<"Backend Development", " / ", "HouDuanKaiFa">>,
     skills |->
       << "go-service-standards", "express", "nodejs", "prisma", "hono-routing",
          "python-patterns", "database-design", "docker-expert",
          "database-schema-designer" >>],
    [key |-> <<"Authentication", " / ", "ShenFenYanZheng">>,
     skills |->
       << "clerk-auth", "better-auth" >>],
    [key |-> <<"AI & SDK", " / ", "AI Yu SDK">>,
     skills |->
       << "ai-sdk-core", "ai-sdk-ui" >>],
    [key |-> <<"Superpowers Workflow", " / ", "Superpowers GongZuoLiu">>,
     skills |->
       << "using-superpowers", "brainstorming", "writing-plans",
          "executing-plans", "subagent-driven-development",
          "test-driven-development", "systematic-debugging",
          "verification-before-completion", "requesting-code-review",
          "receiving-code-review", "using-git-worktrees",
          "finishing-a-development-branch",
          "dispatching-parallel-agents", "writing-skills" >>],
    [key |-> <<"DevTools", " / ", "KaiFaGongJu">>,
     skills |->
       << "plan-feature", "define-architecture", "review-pr", "optimise-seo",
          "developer-toolbox", "playwright-local", "webapp-testing",
          "mcp-builder", "clean-code", "code-review-checklist",
          "performance-profiling", "git-pushing",
          "api-security-best-practices", "typescript-expert",
          "github-actions-templates", "audit-website", "skill-creator" >>],
    [key |-> <<"Documents", " / ", "WenDangChuLi">>,
     skills |->
       << "docx", "pdf", "pptx", "xlsx", "humanizer", "doc-coauthoring",
          "internal-comms" >>],
    [key |-> <<"Creative & Design", " / ", "ChuangYiYuSheJi">>,
     skills |->
       << "canvas-design", "algorithmic-art", "theme-factory",
          "frontend-design", "brand-guidelines", "slack-gif-creator",
          "web-artifacts-builder" >>],
    [key |-> <<"General", " / ", "TongYong">>,
     skills |->
       << "chinese-default", "template-skill" >>]
  >>

\* category_key.split(' / ')[0]
RECURSIVE BeforeSlash(_)
BeforeSlash(key) ==
  IF key = <<>> \/ Head(key) = " / " THEN <<>>
  ELSE <<Head(key)>> \o BeforeSlash(Tail(key))

\* lines 57-64
Title(lang) ==
  IF lang = "zh" THEN <<"## ", "Skills GaiLan">> ELSE <<"## ", "Skills Overview">>
Headers(lang) ==
  IF lang = "zh"
    THEN <<"| Skill | MiaoShu (Description) | ChuFaTiaoJian (Triggers) | XiaoGuo (Effect) |">>
    ELSE <<"| Skill | Description | Triggers | Effect |">>
OtherHeading(lang) ==
  IF lang = "zh" THEN <<"### ", "Other", " / ", "QiTa">> ELSE <<"### ", "Other">>
Separator == <<"|---|---|---|---|">>

\* name in skills_map
InMap(skills_map, name) == \E i \in 1..Len(skills_map) : skills_map[i].id = name
\* skills_map[name]
Lookup(skills_map, name) ==
  skills_map[CHOOSE i \in 1..Len(skills_map) : skills_map[i].id = name]

\* skill['description'].replace('|', '\|')
EscapePipes(s) == [i \in 1..Len(s) |-> IF s[i] = "|" THEN "\\|" ELSE s[i]]

\* '<br>'.join(items) if items else '-'
Cell(items) == IF items # <<>> THEN Join(items, "<br>") ELSE <<"-">>

\* lines 87-91 and 105-109: one table row ('~' stands for the backquote)
Row(skill) ==
  <<"| ", "[~", skill.name, "~](./skills/", skill.name, "/SKILL.md)", " | ">>
    \o EscapePipes(skill.description) \o <<" | ">>
    \o Cell(skill.triggers) \o <<" | ">>
    \o Cell(skill.effect) \o <<" |">>

RECURSIVE Rows(_)
Rows(skills) == IF skills = <<>> THEN <<>> ELSE <<Row(Head(skills))>> \o Rows(Tail(skills))

\* lines 76-80: the skills of a category that are in skills_map, in the
\* category's order
RECURSIVE CategorySkills(_, _)
CategorySkills(skills_map, names) ==
  IF names = <<>> THEN <<>>
  ELSE (IF InMap(skills_map, Head(names))
          THEN <<Lookup(skills_map, Head(names))>> ELSE <<>>)
       \o CategorySkills(skills_map, Tail(names))

\* lines 82-92 and 100-110: heading, blank line, table, blank line
Table(heading, lang, skills) ==
  <<heading, <<>>, Headers(lang), Separator>> \o Rows(skills) \o <<<<>>>>

\* lines 70-92: the loop over CATEGORIES
RECURSIVE CategoryTables(_, _, _)
CategoryTables(skills_map, lang, cats) ==
  IF cats = <<>> THEN <<>>
  ELSE LET cat == Head(cats)
           cat_name == IF lang = "en" THEN BeforeSlash(cat.key) ELSE cat.key
           category_skills == CategorySkills(skills_map, cat.skills)
       IN  (IF category_skills # <<>>
              THEN Table(<<"### ">> \o cat_name, lang, category_skills)
              ELSE <<>>)
           \o CategoryTables(skills_map, lang, Tail(cats))

\* processed_skills: every name of a category that is in skills_map
ProcessedSkills(skills_map) ==
  {n \in UNION {Range(CATEGORIES[c].skills) : c \in 1..Len(CATEGORIES)} :
     InMap(skills_map, n)}

\* A variant of Uncategorized that does not look at processed_skills.
Uncategorized_All(skills_map) == skills_map

\* lines 95-98: the skills not processed, in skills_map order
RECURSIVE Uncategorized(_)
Uncategorized(skills_map) ==
  IF skills_map = <<>> THEN <<>>
  ELSE (IF Head(skills_map).id \notin ProcessedSkills(skills_map)
          THEN <<Head(skills_map)>> ELSE <<>>)
       \o Uncategorized(Tail(skills_map))

\* generate_markdown: the lines of md (md ends with a newline, so the last
\* line is empty)
generate_markdown(skills_map, lang) ==
  <<Title(lang), <<>>>>
    \o CategoryTables(skills_map, lang, CATEGORIES)
    \o (IF Uncategorized(skills_map) # <<>>
          THEN Table(OtherHeading(lang), lang, Uncategorized(skills_map))
          ELSE <<>>)
    \o <<<<>>>>

(***************************************************************************)
(* The splice: re.search and re.sub of main, lines 132-134 and 145-147     *)
(***************************************************************************)
\* str.strip() of a text of several lines
RECURSIVE RStripText(_)
RStripText(lines) ==
  IF lines = <<>> THEN <<>>
  ELSE LET n == Len(lines)
           last == RStrip(lines[n], WsTokens)
       IN  IF last = <<>> /\ n > 1
             THEN RStripText(SubSeq(lines, 1, n - 1))
             ELSE SubSeq(lines, 1, n - 1) \o <<last>>

RECURSIVE LStripText(_)
LStripText(lines) ==
  IF lines = <<>> THEN <<>>
  ELSE LET first == LStrip(lines[1], WsTokens)
       IN  IF first = <<>> /\ Len(lines) > 1
             THEN LStripText(Tail(lines))
             ELSE <<first>> \o Tail(lines)

StripText(lines) == LStripText(RStripText(lines))

\* new_content.strip() + '\n'
Replacement(new_content) == StripText(new_content) \o <<<<>>>>

\* re.sub reads its replacement as a template: backslash-n is a newline, a
\* backslash before an ASCII letter that is no escape is an error, and a
\* backslash before a '|' stays as it is
NewlineEscape == "\\n"
BadEscapes == {"\\d"}

TemplateError(repl) ==
  \E i \in 1..Len(repl) : \E j \in 1..Len(repl[i]) : repl[i][j] \in BadEscapes

RECURSIVE ExpandLine(_)
ExpandLine(line) ==
  IF line = <<>> THEN <<<<>>>>
  ELSE LET rest == ExpandLine(Tail(line))
       IN  IF Head(line) = NewlineEscape
             THEN <<<<>>>> \o rest
             ELSE <<<<Head(line)>> \o rest[1]>> \o Tail(rest)

RECURSIVE ExpandTemplate(_)
ExpandTemplate(repl) ==
  IF repl = <<>> THEN <<>>
  ELSE ExpandLine(Head(repl)) \o ExpandTemplate(Tail(repl))

\* pattern_zh, line 132, and pattern_en, line 145:
\*   (<start>\n)([\s\S]*?)(?=\n<end>)
PatternStart(lang) ==
  IF lang = "zh" THEN <<"## ", "Skills GaiLan">> ELSE <<"## ", "Skills Overview">>
PatternEnd(lang) ==
  IF lang = "zh" THEN <<"## ", "MuLuJieGou">> ELSE <<"## ", "Directory Structure">>

EndsWithSeq(line, toks) ==
  /\ Len(line) >= Len(toks)
  /\ SubSeq(line, Len(line) - Len(toks) + 1, Len(line)) = toks
StartsWithSeq(line, toks) ==
  /\ Len(line) >= Len(toks)
  /\ SubSeq(line, 1, Len(toks)) = toks

\* the lines b at which '\n<end>' can close a match that started on line a:
\* group 1 takes the newline of line a, so b is at least a + 2
EndLines(text, a, lang) ==
  {b \in (a + 2)..Len(text) : StartsWithSeq(text[b], PatternEnd(lang))}

\* the lines on which a match starts: '<start>\n' ends the line, and an end
\* follows
StartLines(text, lang) ==
  {a \in 1..(Len(text) - 1) :
     EndsWithSeq(text[a], PatternStart(lang)) /\ EndLines(text, a, lang) # {}}

\* re.search(pattern, readme)
PatternFound(text, lang) == StartLines(text, lang) # {}

\* re.sub(pattern, repl, text), repl already expanded: every match, left to
\* right, in the text as it was
RECURSIVE ReSub(_, _, _)
ReSub(text, lang, repl) ==
  IF ~PatternFound(text, lang) THEN text
  ELSE LET a == Min(StartLines(text, lang))
           b == Min(EndLines(text, a, lang))
           before == SubSeq(text[a], 1, Len(text[a]) - Len(PatternStart(lang)))
       IN  SubSeq(text, 1, a - 1)
             \o <<before \o Head(repl)>> \o Tail(repl)
             \o ReSub(SubSeq(text, b, Len(text)), lang, repl)

(***************************************************************************)
(* The catalog run: generate_readme_skills.main                            *)
(***************************************************************************)
MaxSkills == 3
MaxRuns == 2

\* The folders skills/ can hold, as sorted(os.listdir(root)) lists them.
Universe ==
  <<"aaa-custom", "broken", "express", "nextjs", "pdf",
    "react-best-practices", "regex-helper", "zzz-custom">>

\* The SKILL.md of each folder.  "\\xff" is a byte that is no UTF-8, "\\d"
\* and "\\n" are a backslash and a letter, as a skill about patterns or
\* escapes would write them.
FolderDoc(id) ==
  CASE id = "aaa-custom" ->
         <<Delim, <<"name:", " ", "n">>, <<"description:", " ", "\"", "d", "\"">>, Delim,
           <<"## ", "Triggers">>, <<"-", " ", "t">>, <<"-", " ", "u">>,
           <<"## ", "Effect">>, <<"-", " ", "e">>>>
    [] id = "broken" -> <<<<"\\xff">>>>
    [] id = "express" ->
         <<Delim, <<"description:", " ", "|">>, <<" ", "c">>, Delim>>
    [] id = "nextjs" ->
         <<Delim, <<"description:", " ", "a", " ", "|", " ", "b">>, Delim,
           <<"## ", "XiaoGuo">>, <<"-", " ", "e">>>>
    [] id = "pdf" -> <<<<"## ", "Triggers">>, <<"text">>>>
    [] id = "react-best-practices" ->
         <<Delim, <<"description:", " ", "d">>, Delim,
           <<"## ", "Triggers">>, <<"-", " ", "t">>>>
    [] id = "regex-helper" ->
         <<Delim, <<"description:", " ", "match", " ", "\\d">>, Delim>>
    [] id = "zzz-custom" ->
         <<Delim, <<"description:", " ", "x", "\\n", "## ", "MuLuJieGou">>, Delim,
           <<"## ", "Triggers">>, <<"-", " ", "\\n", "## ", "Directory Structure">>>>

\* f.read() raises UnicodeDecodeError on a byte that is no UTF-8
Undecodable(d) == \E i \in 1..Len(d) : \E j \in 1..Len(d[i]) : d[i][j] = "\\xff"

Registries ==
  {[id \in S |-> FolderDoc(id)] :
     S \in {T \in SUBSET Range(Universe) : Cardinality(T) <= MaxSkills}}

\* The destination documents a run can meet.
Readmes(lang) ==
  { <<<<"intro">>, PatternStart(lang), <<"old">>, <<>>, PatternEnd(lang), <<"post">>>>,
    <<<<"intro">>, PatternEnd(lang), <<"post">>>>,
    <<<<"intro">>, PatternStart(lang), <<"old">>>>,
    <<<<"see", " ">> \o PatternStart(lang), <<"old">>, PatternEnd(lang) \o <<" ", "x">>,
      <<"mid">>, PatternStart(lang), <<"old">>, <<"old">>, PatternEnd(lang)>> }

Msg(m, a) == [msg |-> m, arg |-> a]

CatalogInit ==
  /\ manifest = "missing" /\ sources = <<>> /\ fs = [i \in SyncIds |-> "absent"]
  /\ fs0 = fs /\ entryFs = fs /\ idx = 0 /\ pc = "idle" /\ tempDir = "none"
  /\ trace = <<>>
  /\ doc = <<>> /\ info = NoResult /\ linfo = NoResult /\ epc = "idle"
  /\ skillDocs \in Registries
  /\ readme \in Readmes("zh")
  /\ readmeEn \in Readmes("en")
  /\ readme0 = <<readme, readmeEn>>
  /\ afterRun = <<>>
  /\ cpc = "scan"
  /\ skillsMap = <<>>
  /\ out = <<>>

\* lines 118-126: the loop over sorted(os.listdir(root)); a folder whose
\* document cannot be read is reported and left out
RECURSIVE ScanFolders(_, _)
ScanFolders(names, docs) ==
  IF names = <<>> THEN [map |-> <<>>, out |-> <<>>]
  ELSE LET d == Head(names)
           rest == ScanFolders(Tail(names), docs)
       IN  IF d \notin DOMAIN docs THEN rest
           ELSE IF Undecodable(docs[d])
             THEN [map |-> rest.map, out |-> <<Msg("Error parsing", d)>> \o rest.out]
           ELSE LET i == parse_skill_md(d, docs[d])
                IN  [map |-> <<[id |-> d, name |-> d, description |-> i.description,
                               triggers |-> i.triggers, effect |-> i.effect]>>
                               \o rest.map,
                     out |-> rest.out]

ScanRegistry ==
  /\ cpc = "scan"
  /\ LET r == ScanFolders(Universe, skillDocs)
     IN  /\ skillsMap' = r.map
         /\ out' = out \o r.out
  /\ cpc' = "zh"
  /\ UNCHANGED <<skillDocs, readme, readmeEn, readme0, afterRun, syncVars, extractVars>>

\* lines 129-139: README.md
UpdateReadme ==
  /\ cpc = "zh"
  /\ LET repl == Replacement(generate_markdown(skillsMap, "zh")) IN
       IF PatternFound(readme, "zh")
         THEN IF TemplateError(repl)
                THEN \* re.error leaves main: nothing is written
                     /\ cpc' = "crashed"
                     /\ afterRun' = Append(afterRun, <<readme, readmeEn>>)
                     /\ UNCHANGED <<readme, out>>
                ELSE /\ readme' = ReSub(readme, "zh", ExpandTemplate(repl))
                     /\ out' = Append(out, Msg("Updated", "README.md"))
                     /\ cpc' = "en"
                     /\ UNCHANGED afterRun
         ELSE /\ out' = Append(out, Msg("Could not find section to replace in", "README.md"))
              /\ cpc' = "en"
              /\ UNCHANGED <<readme, afterRun>>
  /\ UNCHANGED <<skillDocs, readmeEn, readme0, skillsMap, syncVars, extractVars>>

\* lines 142-150: README_EN.md; there is no else branch
UpdateReadmeEn ==
  /\ cpc = "en"
  /\ LET repl == Replacement(generate_markdown(skillsMap, "en")) IN
       IF PatternFound(readmeEn, "en")
         THEN IF TemplateError(repl)
                THEN /\ cpc' = "crashed"
                     /\ afterRun' = Append(afterRun, <<readme, readmeEn>>)
                     /\ UNCHANGED <<readmeEn, out>>
                ELSE /\ readmeEn' = ReSub(readmeEn, "en", ExpandTemplate(repl))
                     /\ out' = Append(out, Msg("Updated", "README_EN.md"))
                     /\ cpc' = "done"
                     /\ afterRun' = Append(afterRun, <<readme, readmeEn'>>)
         ELSE /\ cpc' = "done"
              /\ afterRun' = Append(afterRun, <<readme, readmeEn>>)
              /\ UNCHANGED <<readmeEn, out>>
  /\ UNCHANGED <<skillDocs, readme, readme0, skillsMap, syncVars, extractVars>>

\* the entry point is run again, the registry unchanged
RunAgain ==
  /\ cpc \in {"done", "crashed"}
  /\ Len(afterRun) < MaxRuns
  /\ cpc' = "scan"
  /\ skillsMap' = <<>>
  /\ out' = <<>>
  /\ UNCHANGED <<skillDocs, readme, readmeEn, readme0, afterRun, syncVars, extractVars>>

CatalogNext ==
  \/ ScanRegistry
  \/ UpdateReadme
  \/ UpdateReadmeEn
  \/ RunAgain

(***************************************************************************)
(* Specifications                                                          *)
(***************************************************************************)
SpecSync == SyncInit /\ [][SyncNext]_vars
SpecExtract == ExtractInit /\ [][ExtractNext]_vars
SpecCatalog == CatalogInit /\ [][CatalogNext]_vars

(***************************************************************************)
(* Mirror Synchronizer: properties                                         *)
(***************************************************************************)
\* the events of the trace that belong to entry i, i.e. their names in order
RECURSIVE EventsOf(_, _)
EventsOf(t, i) ==
  IF t = <<>> THEN <<>>
  ELSE (IF Head(t).i = i THEN <<Head(t).ev>> ELSE <<>>) \o EventsOf(Tail(t), i)

\* the indices of the entries whose processing was started, in trace order
RECURSIVE Attempted(_)
Attempted(t) ==
  IF t = <<>> THEN <<>>
  ELSE (IF Head(t).ev = "updating" THEN <<Head(t).i>> ELSE <<>>) \o Attempted(Tail(t))

\* the indices of the manifest entries that have a url, in manifest order
RECURSIVE UrlEntries(_, _)
UrlEntries(src, i) ==
  IF i > Len(src) THEN <<>>
  ELSE (IF src[i].url THEN <<i>> ELSE <<>>) \o UrlEntries(src, i + 1)

RunEnded == pc \in {"done", "crashed"}

\* C1: whatever the outcomes of the retrievals, the subpath check, the
\* removal and the copy, the run ends without an exception and has attempted
\* every manifest entry that has a url, in manifest order.
C1_AllEntriesAttemptedNoException ==
  (RunEnded /\ manifest = "ok") =>
    /\ pc = "done"
    /\ Attempted(trace) = UrlEntries(sources, 1)

\* the entry whose processing ended last, when the loop is between entries
\* or the run has ended
EntryEnded ==
  IF pc = "crashed" THEN idx
  ELSE IF pc \in {"loop", "done"} /\ idx > 1 THEN idx - 1
  ELSE 0

\* C2: when the processing of an entry has ended, its target folder is
\* either fully replaced by the upstream content or as it was before the
\* entry was processed; never absent or partial because of a failed copy.
C2_ReplacementAtomic ==
  EntryEnded > 0 =>
    LET id == sources[EntryEnded].id
    IN  fs[id] \in {"upstream", entryFs[id]}

RetrievalOk == {"clone_branch_ok", "clone_default_ok"}
TargetChanges == {"rmtree_ok", "rmtree_raised", "copy_ok", "copy_raised"}

\* position of the first event e in a sequence of event names, 0 if none
FirstAt(evs, e) ==
  IF \E k \in 1..Len(evs) : evs[k] = e
    THEN Min({k \in 1..Len(evs) : evs[k] = e})
    ELSE 0

\* C8: a target folder is removed (or written) only after a retrieval of its
\* entry has succeeded and the subpath has then been found; so the folders
\* differ from what they were when the entry started only for such an entry,
\* and only in its own target: a skipped entry, one whose retrievals both
\* failed, and one whose subpath is missing leave every folder as it was.
C8_RemovalOrdering ==
  /\ \A i \in 1..Len(sources) :
       LET evs == EventsOf(trace, i) IN
         \A k \in 1..Len(evs) :
           evs[k] \in TargetChanges =>
             \E j \in 1..(k - 1) :
               /\ evs[j] = "path_ok"
               /\ \E h \in 1..(j - 1) : evs[h] \in RetrievalOk
  /\ fs # entryFs =>
       /\ trace # <<>>
       /\ LET i == trace[Len(trace)].i
              evs == EventsOf(trace, i)
          IN  /\ i \in 1..Len(sources)
              /\ sources[i].url
              /\ FirstAt(evs, "path_ok") > 0
              /\ \E h \in 1..(FirstAt(evs, "path_ok") - 1) : evs[h] \in RetrievalOk
              /\ \A f \in SyncIds : f # sources[i].id => fs[f] = entryFs[f]

\* C8 witness: an entry with an existing target failed the subpath check and
\* another entry's target was removed after its own check.
C8_Witness ==
  /\ \E i \in 1..Len(sources) :
       /\ "report_path_not_found" \in Range(EventsOf(trace, i))
       /\ fs0[sources[i].id] = "old"
       /\ fs[sources[i].id] = "old"
  /\ \E i \in 1..Len(sources) : "rmtree_ok" \in Range(EventsOf(trace, i))

\* what an entry that has a url may have done so far, as far as retrieval goes
RetrievalProtocol(evs) ==
  LET n == Len(evs)
      retr == {k \in 1..n : evs[k] \in {"clone_branch_ok", "clone_branch_failed",
                                        "clone_default_ok", "clone_default_failed"}}
  IN  /\ n >= 1 => evs[1] = "updating"
      \* the declared branch first
      /\ n >= 2 => evs[2] \in {"clone_branch_ok", "clone_branch_failed"}
      \* at most two attempts, the default branch at most once
      /\ Cardinality(retr) <= 2
      /\ \A k \in retr : k \in {2, 3}
      /\ \A k \in retr :
           evs[k] \in {"clone_default_ok", "clone_default_failed"} =>
             k = 3 /\ evs[2] = "clone_branch_failed"
      \* the fallback exactly when the declared branch failed
      /\ (n >= 3 /\ evs[2] = "clone_branch_failed") =>
           evs[3] \in {"clone_default_ok", "clone_default_failed"}
      /\ (n >= 3 /\ evs[2] = "clone_branch_ok") =>
           evs[3] \in {"path_ok", "path_missing"}
      \* both failed: reported, and nothing else is done for the entry
      /\ (n >= 3 /\ evs[3] = "clone_default_failed") =>
           /\ n >= 4 /\ evs[4] = "report_clone_failed"
           /\ n = 4
      \* the fallback succeeded: on to the subpath check
      /\ (n >= 4 /\ evs[3] = "clone_default_ok") =>
           evs[4] \in {"path_ok", "path_missing"}

IsHeadingLine(line, words) ==
  Len(line) >= 2 /\ line[1] = "## " /\ line[2] \in words

\* a dash-prefixed list line
IsListLine(line) == Strip(line) # <<>> /\ Strip(line)[1] \in DashTokens

\* The section's first heading is followed by no list line before the next
\* heading of the same level or the end of the document.
EmptySection(d, words) ==
  /\ \E h \in 1..Len(d) : IsHeadingLine(d[h], words)
  /\ LET h == Min({k \in 1..Len(d) : IsHeadingLine(d[k], words)})
         nxt == {k \in (h + 1)..Len(d) : StartsWith(d[k], "## ")}
         last == IF nxt = {} THEN Len(d) ELSE Min(nxt) - 1
     IN  \A k \in (h + 1)..last : ~IsListLine(d[k])

\* C6: a document whose Triggers (Effect) heading has no list line under it
\* yields an empty triggers (effect) sequence, rendered as a single dash,
\* whatever follows the section.
C6_EmptySectionIsEmpty ==
  epc # "start" =>
    /\ EmptySection(doc, TriggerWords) =>
         info.triggers = <<>> /\ Cell(info.triggers) = <<"-">>
    /\ EmptySection(doc, EffectWords) =>
         info.effect = <<>> /\ Cell(info.effect) = <<"-">>

\* The front-matter of a document that opens with a delimiter line and has a
\* closing one: the lines between the two.
ClosingLines(d) == {j \in 2..Len(d) : d[j] = Delim}
WellFormedFm(d) == Len(d) >= 1 /\ d[1] = Delim /\ ClosingLines(d) # {}
DescriptionLines(d) ==
  {k \in 2..(Min(ClosingLines(d)) - 1) : StartsWith(d[k], "description:")}

\* The description of the front-matter is a block marker: there is one
\* description key and its value is '|' or '>'.
BlockScalarDoc(d) ==
  /\ WellFormedFm(d)
  /\ Cardinality(DescriptionLines(d)) = 1
  /\ \A k \in DescriptionLines(d) : Strip(Tail(d[k])) \in BlockMarkers

\* a line that starts at column zero and holds a key
IsKeyLine(line) == line # <<>> /\ line[1] \notin WsTokens /\ HasColon(line)

\* The continuation lines of the block: the lines after the description line
\* up to the first key line or the closing delimiter.
Continuation(d) ==
  LET k == CHOOSE x \in DescriptionLines(d) : TRUE
      close == Min(ClosingLines(d))
      stops == {t \in (k + 1)..close : t = close \/ IsKeyLine(d[t])}
  IN  SubSeq(d, k + 1, Min(stops) - 1)

Trimmed(lines) == [i \in 1..Len(lines) |-> Strip(lines[i])]

\* C7: for a document whose description is a block marker, parse_skill_md
\* yields the placeholder "See details." and get_skill_info yields the
\* continuation lines, trimmed and joined with single spaces; what comes
\* after the terminating line adds nothing.
C7_BlockScalarDescription ==
  (epc = "listed" /\ BlockScalarDoc(doc)) =>
    /\ info.description = SeeDetails
    /\ linfo.description = Join(Trimmed(Continuation(doc)), " ")

\* C7 witness: a block description with a continuation line, ended by a key
\* line that an indented line follows, has been extracted by both.
C7_Witness ==
  /\ epc = "listed"
  /\ BlockScalarDoc(doc)
  /\ Continuation(doc) # <<>>
  /\ LET k == CHOOSE x \in DescriptionLines(doc) : TRUE
         t == k + Len(Continuation(doc)) + 1
     IN  /\ t + 1 < Min(ClosingLines(doc))
         /\ IsKeyLine(doc[t])
         /\ StartsWith(doc[t + 1], " ")
  /\ linfo.description = <<"c">>

\* C10: for a document that does not begin with a delimiter line both
\* extractors return name = folder name and description = empty, whatever
\* the body holds.
C10_NoFrontmatterDefaults ==
  (epc = "listed" /\ doc[1] # Delim) =>
    /\ info.name = <<FolderName>> /\ info.description = <<>>
    /\ linfo.name = <<FolderName>> /\ linfo.description = <<>>

(***************************************************************************)
(* Catalog Builder: properties                                             *)
(***************************************************************************)
\* C3: two runs in a row over an unchanged registry leave both destination
\* documents after the second run as they were after the first.
C3_SpliceIdempotent ==
  Len(afterRun) >= 2 => afterRun[2] = afterRun[1]

\* the two documents a run started from
RunInput ==
  IF Len(afterRun) <= 1 THEN readme0 ELSE afterRun[Len(afterRun) - 1]

\* the start marker of a destination is somewhere in the text
StartMarkerFound(text, lang) ==
  \E a \in 1..Len(text) : EndsWithSeq(text[a], PatternStart(lang))

Skipped(file) == Msg("Could not find section to replace in", file) \in Range(out)
Updated(file) == Msg("Updated", file) \in Range(out)

\* C4: when a run has ended, a destination whose start marker is missing is
\* left as it was, its skip has been reported, and the other destination
\* has been updated if its own marker is there; for either destination.
C4_MissingAnchorSkipsOne ==
  cpc = "done" =>
    /\ ~StartMarkerFound(RunInput[1], "zh") =>
         /\ readme = RunInput[1]
         /\ Skipped("README.md")
         /\ PatternFound(RunInput[2], "en") => Updated("README_EN.md")
    /\ ~StartMarkerFound(RunInput[2], "en") =>
         /\ readmeEn = RunInput[2]
         /\ Skipped("README_EN.md")
         /\ PatternFound(RunInput[1], "zh") => Updated("README.md")

\* ---- C5 ----
\* the identifiers of the registry as main parsed them, in enumeration order
RegistryIds == [i \in 1..Len(skillsMap) |-> skillsMap[i].id]

IsRowLine(line) == Len(line) >= 3 /\ line[1] = "| " /\ line[2] = "[~"
IsTableHeading(line) == StartsWith(line, "### ")

\* the tables of a rendered text: each heading with the identifiers of the
\* rows under it, in order
RECURSIVE Tables(_, _)
Tables(lines, acc) ==
  IF lines = <<>> THEN acc
  ELSE LET line == Head(lines) IN
       IF IsTableHeading(line)
         THEN Tables(Tail(lines), Append(acc, [heading |-> line, ids |-> <<>>]))
       ELSE IF IsRowLine(line)
         THEN IF acc = <<>>
                THEN Tables(Tail(lines), <<[heading |-> <<>>, ids |-> <<line[3]>>]>>)
                ELSE Tables(Tail(lines),
                            [acc EXCEPT ![Len(acc)].ids = Append(@, line[3])])
       ELSE Tables(Tail(lines), acc)

\* the members of a sequence that are in a set, in the sequence's order
RECURSIVE Restrict(_, _)
Restrict(seq, S) ==
  IF seq = <<>> THEN <<>>
  ELSE (IF Head(seq) \in S THEN <<Head(seq)>> ELSE <<>>) \o Restrict(Tail(seq), S)

CategoryIds == UNION {Range(CATEGORIES[c].skills) : c \in 1..Len(CATEGORIES)}

CategoryHeading(c, lang) ==
  IF lang = "zh" THEN <<"### ">> \o CATEGORIES[c].key
                 ELSE <<"### ", CATEGORIES[c].key[1]>>

\* the tables the catalog is to hold: the categories that have a present
\* identifier, in map order, each with its present identifiers in its own
\* order; then "Other" with the identifiers of no category, in registry order
RECURSIVE ExpectedCategories(_, _, _)
ExpectedCategories(c, ids, lang) ==
  IF c > Len(CATEGORIES) THEN <<>>
  ELSE LET present == Restrict(CATEGORIES[c].skills, ids)
       IN  (IF present # <<>>
              THEN <<[heading |-> CategoryHeading(c, lang), ids |-> present]>>
              ELSE <<>>)
           \o ExpectedCategories(c + 1, ids, lang)

ExpectedTables(reg, lang) ==
  LET others == Restrict(reg, Range(reg) \ CategoryIds)
  IN  ExpectedCategories(1, Range(reg), lang)
        \o (IF others # <<>>
              THEN <<[heading |-> OtherHeading(lang), ids |-> others]>>
              ELSE <<>>)

RowCount(lines, id) ==
  Cardinality({k \in 1..Len(lines) : IsRowLine(lines[k]) /\ lines[k][3] = id})

\* C5: in either language the rendered text holds one row for every registry
\* identifier and no other row; the categories that have a present
\* identifier come in map order with their identifiers in declared order,
\* the identifiers of no category come once under "Other" in registry order,
\* and a category without a present identifier has no heading.
C5_RowPlacement ==
  cpc \in {"zh", "en", "done"} =>
    \A lang \in {"zh", "en"} :
      LET md == generate_markdown(skillsMap, lang) IN
        /\ Tables(md, <<>>) = ExpectedTables(RegistryIds, lang)
        /\ \A id \in Range(Universe) \cup CategoryIds :
             RowCount(md, id) = (IF id \in Range(RegistryIds) THEN 1 ELSE 0)

\* C5 witness: a registry with two identifiers of one category, listed there
\* in another order than the registry's, and an identifier of no category,
\* has been rendered.
C5_Witness ==
  /\ cpc = "en"
  /\ RegistryIds = <<"aaa-custom", "nextjs", "react-best-practices">>
  /\ Tables(generate_markdown(skillsMap, "zh"), <<>>) =
       <<[heading |-> <<"### ", "Frontend Development", " / ", "QianDuanKaiFa">>,
          ids |-> <<"react-best-practices", "nextjs">>],
         [heading |-> <<"### ", "Other", " / ", "QiTa">>, ids |-> <<"aaa-custom">>]>>

====
